---- MODULE Spec2Model ----
(***************************************************************************)
(* Model of book_manager/src/main.rs: an axum service with two routes,     *)
(* GET /health (health_check) and GET /books (book_list), over a shared    *)
(* sqlx MySQL connection pool that main creates before binding the         *)
(* listener.  The database (reachability, table contents) is the           *)
(* environment.                                                            *)
(***************************************************************************)
EXTENDS Integers, Sequences, FiniteSets, TLC

\* ---------------------------------------------------------------- bounds
MaxReq    == 2   \* requests in flight or answered and not yet received
MaxRows   == 2   \* distinct rows that can exist in table books
PoolSize  == 1   \* connections the pool may hand out at once

\* ------------------------------------------------------------- constants
NO_CONTENT            == 204
OK                    == 200
INTERNAL_SERVER_ERROR == 500

Req     == 1..MaxReq
Conns   == 1..PoolSize
NoConn  == 0
NoPool  == 0

\* --------------------------------------------------------------- records
\* One row of table books, as the database holds it (column name -> value).
Row(i) == [id |-> i, title |-> <<"title", i>>, author |-> <<"author", i>>,
           publisher |-> <<"publisher", i>>, isbn |-> <<"isbn", i>>,
           comment |-> <<"comment", i>>, created_at |-> <<"created", i>>,
           updated_at |-> <<"updated", i>>]

AllRows == {Row(i) : i \in 1..MaxRows}

\* The mapping with two columns bound to the wrong fields.
BookSwapped(row) == [id |-> row.id, title |-> row.author, author |-> row.title,
                     publisher |-> row.publisher, isbn |-> row.isbn,
                     comment |-> row.comment, created_at |-> row.created_at,
                     updated_at |-> row.updated_at]

\* query_as!(Book, ...): a row becomes a Book, column by column.
Book(row) == [id |-> row.id, title |-> row.title, author |-> row.author,
              publisher |-> row.publisher, isbn |-> row.isbn,
              comment |-> row.comment, created_at |-> row.created_at,
              updated_at |-> row.updated_at]

\* BookList(Vec<Book>): the rows in the order the query returned them.
BookList(rows) == [i \in 1..Len(rows) |-> Book(rows[i])]

\* ------------------------------------------------------------- responses
EmptyBody == [json |-> FALSE, books |-> <<>>]
Json(list) == [json |-> TRUE, books |-> list]

NoResponse == [status |-> 0, body |-> EmptyBody]

\* health_check: StatusCode::NO_CONTENT, whatever the database does.
health_check_db_dependent(up) ==
    [status |-> IF up THEN NO_CONTENT ELSE INTERNAL_SERVER_ERROR, body |-> EmptyBody]
health_check_response(up) == [status |-> NO_CONTENT, body |-> EmptyBody]

\* return Err(StatusCode::INTERNAL_SERVER_ERROR) after a failed acquire.
acquire_err_partial == [status |-> OK, body |-> Json(<<>>)]
acquire_err_response == [status |-> INTERNAL_SERVER_ERROR, body |-> EmptyBody]

\* .map_err(|_| StatusCode::INTERNAL_SERVER_ERROR) after a failed query.
query_err_distinct == [status |-> 503, body |-> EmptyBody]
query_err_response == [status |-> INTERNAL_SERVER_ERROR, body |-> EmptyBody]

\* .map(|books| Json(BookList(books))): 200 with the list as JSON.
query_ok_response(rows) == [status |-> OK, body |-> Json(BookList(rows))]

\* ------------------------------------------------------------ the query
\* All orders in which the rows of a set can come back (no ORDER BY).
Orderings(S) ==
    {s \in [1..Cardinality(S) -> S] : \A i, j \in 1..Cardinality(S) : s[i] = s[j] => i = j}

\* "select * from books" ... fetch_all: every row of the table, in some order.
fetch_some(t) == UNION {Orderings(u) : u \in SUBSET t}
fetch_all(t) == Orderings(t)

\* What the statement leaves in the table: a select changes nothing.
statement_deletes(t) == {}
statement_effect(t) == t

VARIABLES
    mainPc,      \* where main is: "env", "connect", "bind", "serving", "panicked"
    exitCause,   \* why main panicked: "none", "env", "pool", "bind"
    startupLog,  \* the startup steps that completed, in order
    dbUrl,       \* DATABASE_URL: "missing", "invalid" or "valid"
    dbUp,        \* the database is reachable
    table,       \* the rows of table books
    pool,        \* the pool handle main created (NoPool before)
    poolsMade,   \* how many pools were ever created
    bound,       \* the listener is bound to 127.0.0.1:3000
    idle,        \* connections of the pool nobody holds
    pc,          \* per request: "new", "routed", "acquire", "query", "done"
    kind,        \* per request: "none", "health", "books"
    db,          \* per request: the pool handle the Extension gave it
    conn,        \* per request: the connection it holds (NoConn if none)
    resp,        \* per request: the response sent
    acqRes,      \* per request: result of db.acquire(): "none", "ok", "err"
    qryRes,      \* per request: result of fetch_all: "none", "ok", "err"
    acquires,    \* per request: acquisition attempts made
    queries,     \* per request: queries executed
    fresh,       \* per request: books was not written since its query ran
    sinceFail,   \* observer: <<kind, status>> of the answers sent from the first 500 on
    last         \* observer: the request the latest step answered (0: none)

vars == <<mainPc, exitCause, startupLog, dbUrl, dbUp, table,
          pool, poolsMade, bound, idle, pc, kind, db, conn, resp, acqRes,
          qryRes, acquires, queries, fresh, sinceFail, last>>

histVars == <<sinceFail, last>>

mainVars == <<mainPc, exitCause, startupLog, pool, poolsMade, bound>>
envVars  == <<dbUrl, dbUp, table>>
reqVars  == <<pc, kind, db, conn, resp, acqRes, qryRes, acquires, queries, fresh>>

Init ==
    /\ mainPc = "env"
    /\ exitCause = "none"
    /\ startupLog = <<>>
    /\ dbUrl \in {"missing", "invalid", "valid"}
    /\ dbUp \in BOOLEAN
    /\ table \in {{Row(i) : i \in 1..n} : n \in 0..MaxRows}
    /\ pool = NoPool
    /\ poolsMade = 0
    /\ bound = FALSE
    /\ idle = {}
    /\ pc = [r \in Req |-> "new"]
    /\ kind = [r \in Req |-> "none"]
    /\ db = [r \in Req |-> NoPool]
    /\ conn = [r \in Req |-> NoConn]
    /\ resp = [r \in Req |-> NoResponse]
    /\ acqRes = [r \in Req |-> "none"]
    /\ qryRes = [r \in Req |-> "none"]
    /\ acquires = [r \in Req |-> 0]
    /\ queries = [r \in Req |-> 0]
    /\ fresh = [r \in Req |-> FALSE]
    /\ sinceFail = {}
    /\ last = 0

\* ------------------------------------------------------------------ main
\* env::var("DATABASE_URL").unwrap(): panics when the variable is not set.
main_read_env ==
    /\ mainPc = "env"
    /\ IF dbUrl = "missing"
         THEN /\ mainPc' = "panicked"
              /\ exitCause' = "env"
              /\ startupLog' = startupLog
         ELSE /\ mainPc' = "connect"
              /\ exitCause' = exitCause
              /\ startupLog' = Append(startupLog, "env")
    /\ UNCHANGED <<pool, poolsMade, bound, idle>>
    /\ UNCHANGED envVars
    /\ UNCHANGED reqVars

\* MySqlPool::connect(url).await: succeeds on a valid url and a reachable database.
connect_result(url, up) == IF url = "valid" /\ up THEN "ok" ELSE "err"

\* .unwrap() on the connect result: go on to bind, or panic.
unwrap_ignored(res) == "bind"
unwrap_pool(res) == IF res = "ok" THEN "bind" ELSE "panicked"

main_connect ==
    /\ mainPc = "connect"
    /\ LET res == connect_result(dbUrl, dbUp) IN
         /\ mainPc' = unwrap_pool(res)
         /\ IF res = "ok"
              THEN /\ pool' = 1
                   /\ poolsMade' = poolsMade + 1
                   /\ idle' = Conns
                   /\ startupLog' = Append(startupLog, "pool")
              ELSE UNCHANGED <<pool, poolsMade, idle, startupLog>>
         /\ exitCause' = IF mainPc' = "panicked" THEN "pool" ELSE exitCause
    /\ bound' = bound
    /\ UNCHANGED envVars
    /\ UNCHANGED reqVars

\* axum::Server::bind(&addr).serve(...): binds, or panics when the port is taken.
main_bind ==
    /\ mainPc = "bind"
    /\ \E ok \in BOOLEAN :
         IF ok
           THEN /\ mainPc' = "serving"
                /\ bound' = TRUE
                /\ startupLog' = Append(startupLog, "bind")
                /\ exitCause' = exitCause
           ELSE /\ mainPc' = "panicked"
                /\ bound' = FALSE
                /\ startupLog' = startupLog
                /\ exitCause' = "bind"
    /\ UNCHANGED <<pool, poolsMade, idle>>
    /\ UNCHANGED envVars
    /\ UNCHANGED reqVars

\* ---------------------------------------------------------------- router
\* A request arrives and the router picks its handler; the Extension layer
\* hands the handler the shared pool handle.  A request takes the
\* lowest free slot.
route(r, k) ==
    /\ mainPc = "serving"
    /\ bound
    /\ pc[r] = "new"
    /\ \A q \in 1..(r - 1) : pc[q] # "new"
    /\ pc' = [pc EXCEPT ![r] = "routed"]
    /\ kind' = [kind EXCEPT ![r] = k]
    /\ db' = [db EXCEPT ![r] = pool]
    /\ UNCHANGED <<conn, resp, acqRes, qryRes, acquires, queries, fresh>>
    /\ UNCHANGED mainVars
    /\ UNCHANGED envVars
    /\ idle' = idle

\* -------------------------------------------------------------- handlers
health_check_needs_conn(r) ==
    /\ pc[r] = "routed"
    /\ kind[r] = "health"
    /\ idle # {}
    /\ pc' = [pc EXCEPT ![r] = "done"]
    /\ resp' = [resp EXCEPT ![r] = health_check_response(dbUp)]
    /\ UNCHANGED <<kind, db, conn, acqRes, qryRes, acquires, queries, fresh>>
    /\ UNCHANGED mainVars
    /\ UNCHANGED envVars
    /\ idle' = idle

health_check(r) ==
    /\ pc[r] = "routed"
    /\ kind[r] = "health"
    /\ pc' = [pc EXCEPT ![r] = "done"]
    /\ resp' = [resp EXCEPT ![r] = health_check_response(dbUp)]
    /\ UNCHANGED <<kind, db, conn, acqRes, qryRes, acquires, queries, fresh>>
    /\ UNCHANGED mainVars
    /\ UNCHANGED envVars
    /\ idle' = idle

\* book_list, up to db.acquire().await: the handler asks the pool and suspends.
book_list_acquire(r) ==
    /\ pc[r] = "routed"
    /\ kind[r] = "books"
    /\ pc' = [pc EXCEPT ![r] = "acquire"]
    /\ acquires' = [acquires EXCEPT ![r] = @ + 1]
    /\ UNCHANGED <<kind, db, conn, resp, acqRes, qryRes, queries, fresh>>
    /\ UNCHANGED mainVars
    /\ UNCHANGED envVars
    /\ idle' = idle

\* if conn.is_err() { return Err(..) }: where the handler goes after acquire.
after_acquire_unchecked(res) == "query"
after_acquire(res) == IF res = "err" THEN "done" ELSE "query"

\* db.acquire() resolves: a connection, which takes a reachable database and
\* an idle connection, or an error (unreachable, timed out, broken).
book_list_acquired(r) ==
    /\ pc[r] = "acquire"
    /\ \E res \in {"ok", "err"} :
         /\ res = "ok" => dbUp /\ idle # {}
         /\ acqRes' = [acqRes EXCEPT ![r] = res]
         /\ pc' = [pc EXCEPT ![r] = after_acquire(res)]
         /\ IF res = "ok"
              THEN \E c \in idle :
                     /\ conn' = [conn EXCEPT ![r] = c]
                     /\ idle' = idle \ {c}
              ELSE UNCHANGED <<conn, idle>>
         /\ IF after_acquire(res) = "done"
              THEN resp' = [resp EXCEPT ![r] = acquire_err_response]
              ELSE resp' = resp
    /\ UNCHANGED <<kind, db, qryRes, acquires, queries, fresh>>
    /\ UNCHANGED mainVars
    /\ UNCHANGED envVars

\* The PoolConnection temporary is dropped when the handler's body ends.
drop_leaks(c, free) == free
drop_conn(c, free) == IF c = NoConn THEN free ELSE free \cup {c}

\* fetch_all(&mut conn).await resolves, the result is mapped to the response
\* and the connection is dropped.
book_list_query(r) ==
    /\ pc[r] = "query"
    /\ \E res \in {"ok", "err"} :
         /\ res = "ok" => dbUp
         /\ qryRes' = [qryRes EXCEPT ![r] = res]
         /\ IF res = "ok"
              THEN \E rows \in fetch_all(table) :
                     resp' = [resp EXCEPT ![r] = query_ok_response(rows)]
              ELSE resp' = [resp EXCEPT ![r] = query_err_response]
    /\ table' = statement_effect(table)
    /\ queries' = [queries EXCEPT ![r] = @ + 1]
    /\ fresh' = [fresh EXCEPT ![r] = (table' = table)]
    /\ idle' = drop_conn(conn[r], idle)
    /\ conn' = [conn EXCEPT ![r] = NoConn]
    /\ pc' = [pc EXCEPT ![r] = "done"]
    /\ UNCHANGED <<kind, db, acqRes, acquires>>
    /\ UNCHANGED mainVars
    /\ UNCHANGED <<dbUrl, dbUp>>

\* The client has received the response of request r; its slot is free again.
received(r) ==
    /\ pc[r] = "done"
    /\ pc' = [pc EXCEPT ![r] = "new"]
    /\ kind' = [kind EXCEPT ![r] = "none"]
    /\ db' = [db EXCEPT ![r] = NoPool]
    /\ resp' = [resp EXCEPT ![r] = NoResponse]
    /\ acqRes' = [acqRes EXCEPT ![r] = "none"]
    /\ qryRes' = [qryRes EXCEPT ![r] = "none"]
    /\ acquires' = [acquires EXCEPT ![r] = 0]
    /\ queries' = [queries EXCEPT ![r] = 0]
    /\ fresh' = [fresh EXCEPT ![r] = FALSE]
    /\ conn' = conn
    /\ UNCHANGED mainVars
    /\ UNCHANGED envVars
    /\ idle' = idle

\* ----------------------------------------------------------- environment
db_goes_down ==
    /\ dbUp
    /\ dbUp' = FALSE
    /\ UNCHANGED <<dbUrl, table>>
    /\ UNCHANGED mainVars
    /\ UNCHANGED reqVars
    /\ idle' = idle

db_comes_up ==
    /\ ~dbUp
    /\ dbUp' = TRUE
    /\ UNCHANGED <<dbUrl, table>>
    /\ UNCHANGED mainVars
    /\ UNCHANGED reqVars
    /\ idle' = idle

\* What one statement of another client can make of the table: a row
\* inserted, a row deleted, or every row deleted.
Written(t) ==
    {t \cup {row} : row \in AllRows} \cup {t \ {row} : row \in AllRows} \cup {{}}

\* Another client of the database changes table books.
db_write ==
    /\ dbUp
    /\ \E t \in Written(table) :
         /\ t # table
         /\ table' = t
    /\ fresh' = [r \in Req |-> FALSE]
    /\ UNCHANGED <<dbUrl, dbUp>>
    /\ UNCHANGED mainVars
    /\ UNCHANGED <<pc, kind, db, conn, resp, acqRes, qryRes, acquires, queries>>
    /\ idle' = idle

\* Every step of the program and of its environment; nothing is observed.
Next ==
    \/ main_read_env /\ UNCHANGED histVars
    \/ main_connect /\ UNCHANGED histVars
    \/ main_bind /\ UNCHANGED histVars
    \/ \E r \in Req : \E k \in {"health", "books"} : route(r, k) /\ UNCHANGED histVars
    \/ \E r \in Req : health_check(r) /\ UNCHANGED histVars
    \/ \E r \in Req : book_list_acquire(r) /\ UNCHANGED histVars
    \/ \E r \in Req : book_list_acquired(r) /\ UNCHANGED histVars
    \/ \E r \in Req : book_list_query(r) /\ UNCHANGED histVars
    \/ \E r \in Req : received(r) /\ UNCHANGED histVars
    \/ db_goes_down /\ UNCHANGED histVars
    \/ db_comes_up /\ UNCHANGED histVars
    \/ db_write /\ UNCHANGED histVars

Spec == Init /\ [][Next]_vars

\* ---------------------------------------------------------------- observer
\* What a client watching the responses sees of a step: which request it
\* answered, and, from the first 500 on, the kind and status of every answer.
Observe ==
    LET answered == {r \in Req : pc[r] # "done" /\ pc'[r] = "done"} IN
      IF answered = {}
        THEN /\ last' = 0
             /\ sinceFail' = sinceFail
        ELSE LET r == CHOOSE x \in answered : TRUE IN
               /\ last' = r
               /\ sinceFail' = IF sinceFail # {} \/ resp'[r].status >= 500
                                  THEN sinceFail \cup {<<kind'[r], resp'[r].status>>}
                                  ELSE sinceFail

\* The same program with a table nobody else writes, watched by the observer.
InitObserved ==
    /\ Init
    /\ table \subseteq {Row(1)}

NextObserved ==
    \/ main_read_env /\ Observe
    \/ main_connect /\ Observe
    \/ main_bind /\ Observe
    \/ \E r \in Req : \E k \in {"health", "books"} : route(r, k) /\ Observe
    \/ \E r \in Req : health_check(r) /\ Observe
    \/ \E r \in Req : book_list_acquire(r) /\ Observe
    \/ \E r \in Req : book_list_acquired(r) /\ Observe
    \/ \E r \in Req : book_list_query(r) /\ Observe
    \/ \E r \in Req : received(r) /\ Observe
    \/ db_goes_down /\ Observe
    \/ db_comes_up /\ Observe

SpecObserved == InitObserved /\ [][NextObserved]_vars

\* ------------------------------------------------------------ vocabulary
Done(r)        == pc[r] = "done"
IsHealth(r)    == kind[r] = "health"
IsBooks(r)     == kind[r] = "books"
InFlightBooks  == {r \in Req : IsBooks(r) /\ pc[r] \in {"routed", "acquire", "query"}}
CheckedOut     == IF pool = NoPool THEN {} ELSE Conns \ idle
BooksSucceeded(r) == IsBooks(r) /\ Done(r) /\ acqRes[r] = "ok" /\ qryRes[r] = "ok"
BooksFailed(r) == IsBooks(r) /\ Done(r) /\ (acqRes[r] = "err" \/ qryRes[r] = "err")
Records(r)     == {resp[r].body.books[i] : i \in 1..Len(resp[r].body.books)}
SameFields(b, row) ==
    /\ b.id = row.id /\ b.title = row.title /\ b.author = row.author
    /\ b.publisher = row.publisher /\ b.isbn = row.isbn /\ b.comment = row.comment
    /\ b.created_at = row.created_at /\ b.updated_at = row.updated_at
Error500(r)    == resp[r].status = 500 /\ resp[r].body.json = FALSE /\ resp[r].body.books = <<>>

\* C1: every answered GET /health got 204 with an empty body, made no
\* acquisition attempt, ran no query and holds no connection; a health
\* request is never waiting on the pool or the database.
C1_HealthAlwaysNoContent ==
    \A r \in Req : IsHealth(r) =>
        /\ pc[r] \in {"routed", "done"}
        /\ acquires[r] = 0 /\ queries[r] = 0 /\ conn[r] = NoConn
        /\ Done(r) => resp[r].status = 204 /\ resp[r].body = EmptyBody

\* A health request was just answered 204 with the database down, every
\* connection checked out and a /books request in flight.
C1_Witness ==
    /\ last \in Req
    /\ IsHealth(last)
    /\ resp[last].status = 204
    /\ ~dbUp
    /\ pool # NoPool /\ idle = {}
    /\ InFlightBooks # {}

\* C2: a GET /books whose acquisition and query succeeded answered 200 with a
\* JSON list; as long as the table was not written since its query, the list
\* has exactly one record per row of the table and every record carries the
\* eight fields of its row (an empty table gives 200 with an empty list).
C2_ListMatchesTable ==
    \A r \in Req : BooksSucceeded(r) =>
        /\ resp[r].status = 200
        /\ resp[r].body.json
        /\ fresh[r] =>
             /\ Len(resp[r].body.books) = Cardinality(table)
             /\ \A b \in Records(r) : \E row \in table : SameFields(b, row)
             /\ \A row \in table : \E b \in Records(r) : SameFields(b, row)

\* One request listed a table of at least two rows, and after a write
\* another one listed the empty table.
C2_Witness ==
    \E r1, r2 \in Req :
        /\ BooksSucceeded(r1) /\ BooksSucceeded(r2)
        /\ ~fresh[r1] /\ Len(resp[r1].body.books) >= 2 /\ resp[r1].status = 200
        /\ fresh[r2] /\ resp[r2].body.books = <<>> /\ resp[r2].status = 200
        /\ table = {}

\* C3: a GET /books that failed got 500 with no record data and main is
\* still serving with the listener bound; every answer sent after a failure
\* is the answer of its own handler (204 for /health, 200 for a /books that
\* succeeded, 500 for one that failed).
C3_FailureIs500AndServerLives ==
    /\ sinceFail # {} => mainPc = "serving" /\ bound
    /\ sinceFail \subseteq {<<"books", 500>>, <<"health", 204>>, <<"books", 200>>}
    /\ \A r \in Req :
         /\ BooksFailed(r) => Error500(r) /\ <<"books", 500>> \in sinceFail
         /\ (Done(r) /\ resp[r].status >= 500) => BooksFailed(r)
         /\ (Done(r) /\ sinceFail # {}) =>
              /\ IsHealth(r) => resp[r].status = 204
              /\ BooksSucceeded(r) => resp[r].status = 200

\* After a /books failed, a /health was answered 204 and a /books was just
\* answered 200, the database being reachable.
C3_Witness ==
    /\ <<"books", 500>> \in sinceFail
    /\ <<"health", 204>> \in sinceFail
    /\ <<"books", 200>> \in sinceFail
    /\ last \in Req /\ BooksSucceeded(last) /\ resp[last].status = 200
    /\ dbUp

\* C4: a /books that failed at acquisition and a /books that failed at the
\* query got the same response, status and body.
C4_FailuresIndistinguishable ==
    \A r1, r2 \in Req :
        BooksFailed(r1) /\ acqRes[r1] = "err" /\ BooksFailed(r2) /\ qryRes[r2] = "err"
            => resp[r1] = resp[r2]

\* One request failed at acquisition and another at its query.
C4_Witness ==
    \E r1, r2 \in Req :
        /\ BooksFailed(r1) /\ acqRes[r1] = "err" /\ queries[r1] = 0
        /\ BooksFailed(r2) /\ acqRes[r2] = "ok" /\ qryRes[r2] = "err"

\* C5: the connections checked out are exactly those held by /books handlers
\* waiting for their query: never more than the /books requests in flight,
\* none when no request is in flight, and an answered request holds none.
C5_NoConnectionLeak ==
    /\ Cardinality(CheckedOut) <= Cardinality(InFlightBooks)
    /\ InFlightBooks = {} => CheckedOut = {}
    /\ \A r \in Req : Done(r) => conn[r] = NoConn
    /\ \A c \in CheckedOut : \E r \in InFlightBooks : conn[r] = c

\* A success and a query failure were both answered, nothing is in flight
\* and every connection is back.
C5_Witness ==
    /\ \E r1, r2 \in Req :
         /\ BooksSucceeded(r1)
         /\ BooksFailed(r2) /\ qryRes[r2] = "err"
    /\ InFlightBooks = {}
    /\ pool # NoPool
    /\ idle = Conns

\* C6: main reads DATABASE_URL, then establishes the pool, then binds, in
\* that order; the listener is never bound without a pool; with a missing or
\* invalid DATABASE_URL, or after a failed pool establishment, the listener
\* was never bound and no request was routed or answered.
C6_StartupOrder ==
    /\ \E n \in 0..3 : startupLog = SubSeq(<<"env", "pool", "bind">>, 1, n)
    /\ bound => pool # NoPool
    /\ mainPc = "serving" => bound
    /\ (dbUrl # "valid" \/ exitCause \in {"env", "pool"}) =>
         /\ ~bound
         /\ mainPc \in {"env", "connect", "panicked"}
         /\ \A r \in Req : pc[r] = "new" /\ resp[r] = NoResponse
    /\ (mainPc = "panicked" /\ dbUrl = "missing") => exitCause = "env"
    /\ (mainPc = "panicked" /\ dbUrl = "invalid") => exitCause = "pool"

\* main panicked because the pool could not be established.
C6_Witness ==
    /\ mainPc = "panicked"
    /\ exitCause = "pool"
    /\ startupLog = <<"env">>

\* C7: two successful GET /books with no write to the table since the query
\* of either returned the same set of records.
C7_SameRecordSet ==
    \A r1, r2 \in Req :
        BooksSucceeded(r1) /\ BooksSucceeded(r2) /\ fresh[r1] /\ fresh[r2]
            => Records(r1) = Records(r2)

\* Two successes with no write between them returned the same two or more
\* rows in different orders.
C7_Witness ==
    \E r1, r2 \in Req :
        /\ BooksSucceeded(r1) /\ BooksSucceeded(r2) /\ fresh[r1] /\ fresh[r2]
        /\ resp[r1].body.books # resp[r2].body.books
        /\ Len(resp[r1].body.books) >= 2

\* C8: a step changes the table only if it is a write by another client;
\* the pool handle, once created, is never replaced and no second pool is
\* made; every routed request uses that handle.
C8_RequestsChangeNothing ==
    [][/\ table' # table => db_write
       /\ pool # NoPool => pool' = pool
       /\ poolsMade' <= 1
       /\ \A r \in Req : pc'[r] # "new" => db'[r] = pool' /\ pool' # NoPool
      ]_vars

\* A successful and a failed /books were answered; the table was not
\* written since the successful query and is not empty.
C8_Witness ==
    /\ \E r1, r2 \in Req : BooksFailed(r1) /\ BooksSucceeded(r2) /\ fresh[r2]
    /\ table # {}
    /\ pool # NoPool /\ poolsMade = 1

\* C9: a /books request makes one acquisition attempt; after a failed
\* acquisition it is answered 500 and runs no query; after a successful one it
\* runs exactly one query before it is answered; a query only ever runs on a
\* connection the request acquired and still holds.
C9_OneAttemptOneQuery ==
    \A r \in Req : IsBooks(r) =>
        /\ acquires[r] <= 1 /\ queries[r] <= 1
        /\ pc[r] \in {"acquire", "query", "done"} => acquires[r] = 1
        /\ pc[r] = "query" => acqRes[r] = "ok" /\ conn[r] \in Conns \ idle /\ queries[r] = 0
        /\ queries[r] > 0 => acqRes[r] = "ok"
        /\ (Done(r) /\ acqRes[r] = "err") => queries[r] = 0 /\ Error500(r)
        /\ (Done(r) /\ acqRes[r] = "ok") => queries[r] = 1

\* One request was answered after a failed acquisition, another after its
\* one query.
C9_Witness ==
    \E r1, r2 \in Req :
        /\ IsBooks(r1) /\ Done(r1) /\ acqRes[r1] = "err" /\ queries[r1] = 0
        /\ IsBooks(r2) /\ Done(r2) /\ acqRes[r2] = "ok" /\ queries[r2] = 1

\* C10: a routed GET /health can always be answered at once, however many
\* /books handlers are suspended and even with every connection checked out;
\* and the status a /books request gets is decided by its own acquisition
\* and query results.
C10_HealthNeverBlocked ==
    \A r \in Req :
        /\ (pc[r] = "routed" /\ IsHealth(r)) => ENABLED health_check(r)
        /\ (IsBooks(r) /\ Done(r)) =>
             resp[r].status = IF acqRes[r] = "ok" /\ qryRes[r] = "ok" THEN 200 ELSE 500

\* A /health was just answered while a /books handler is suspended and every
\* connection is checked out.
C10_Witness ==
    /\ last \in Req
    /\ IsHealth(last) /\ resp[last].status = 204
    /\ \E r \in Req : pc[r] \in {"acquire", "query"}
    /\ pool # NoPool /\ idle = {}

====
